---- MODULE Spec2Model ----
(***************************************************************************)
(* Model of the dependency topology view (TopologyView.tsx): the graph     *)
(* transforms (aggregateToDirectory, filterIsolatedNodes, the degree map   *)
(* of renderForceGraph, the forest of renderTreeGraph), the selection      *)
(* detail, and the component's effects (render, resize, fullscreen timer,  *)
(* Escape key) with the force simulations they start and stop; and of the  *)
(* global store (store.ts) with its setters.                               *)
(*                                                                         *)
(* A path is a sequence of one-character strings; JavaScript arrays are    *)
(* sequences, a JavaScript Set is the sequence of its elements in          *)
(* insertion order, a JavaScript Map is a function on its key set.         *)
(***************************************************************************)
EXTENDS Integers, Sequences, FiniteSets, TLC

\* ------------------------------------------------------------------ bounds
MaxEdges == 2
MaxSims == 2

\* ------------------------------------------------------------ JS helpers
SeqMax(S) == CHOOSE m \in S : \A x \in S : x <= m

Range(s) == {s[i] : i \in DOMAIN s}

\* String.prototype.lastIndexOf: 0-based index of the last occurrence, or -1
lastIndexOf(s, c) ==
    LET I == {i \in 1..Len(s) : s[i] = c}
    IN  IF I = {} THEN -1 ELSE SeqMax(I) - 1

\* String.prototype.substring(from, to): 0-based, end exclusive
substring(s, from, to) == SubSeq(s, from + 1, to)

\* the "(root)" sentinel
ROOT == <<"(", "r", "o", "o", "t", ")">>

\* the "->" of the edge key template
ARROW == <<"-", ">">>

\* Set.prototype.add on an insertion-ordered set
SetAdd(set, x) == IF x \in Range(set) THEN set ELSE Append(set, x)

\* Map.prototype.set
MapSet(m, k, v) == [x \in (DOMAIN m) \cup {k} |-> IF x = k THEN v ELSE m[x]]
EmptyMap == [x \in {} |-> 0]

\* the idiom  map.get(k) || d  on a map of numbers: d for a missing key or a 0
MapGetOr(m, k, d) == IF k \in DOMAIN m /\ m[k] # 0 THEN m[k] ELSE d

Edge(s, t) == [source |-> s, target |-> t]
Graph(ns, es) == [nodes |-> ns, edges |-> es]

\* ------------------------------------------------- aggregateToDirectory
\* getDir without the sentinel: an id without a separator is its own directory
getDirNoSentinel(path) ==
    LET idx == lastIndexOf(path, "/")
    IN  IF idx >= 0 THEN substring(path, 0, idx) ELSE path

getDir(path) ==
    LET idx == lastIndexOf(path, "/")
    IN  IF idx >= 0 THEN substring(path, 0, idx) ELSE ROOT

RECURSIVE dirSetOf(_, _, _)
dirSetOf(nodes, i, dirSet) ==
    IF i > Len(nodes) THEN dirSet
    ELSE dirSetOf(nodes, i + 1, SetAdd(dirSet, getDir(nodes[i])))

edgeKey(srcDir, tgtDir) == srcDir \o ARROW \o tgtDir

\* the for-loop without  if (srcDir === tgtDir) continue
RECURSIVE aggregateEdgesKeepSelf(_, _, _)
aggregateEdgesKeepSelf(es, i, acc) ==
    IF i > Len(es) THEN acc.edges
    ELSE LET srcDir == getDir(es[i].source)
             tgtDir == getDir(es[i].target)
             key == edgeKey(srcDir, tgtDir)
         IN  IF key \in acc.edgeSet THEN aggregateEdgesKeepSelf(es, i + 1, acc)
             ELSE aggregateEdgesKeepSelf(es, i + 1,
                      [edgeSet |-> acc.edgeSet \cup {key},
                       edges |-> Append(acc.edges, Edge(srcDir, tgtDir))])

\* the for-loop over graph.edges; acc = [edgeSet, edges]
RECURSIVE aggregateEdges(_, _, _)
aggregateEdges(es, i, acc) ==
    IF i > Len(es) THEN acc.edges
    ELSE LET srcDir == getDir(es[i].source)
             tgtDir == getDir(es[i].target)
             key == edgeKey(srcDir, tgtDir)
         IN  IF srcDir = tgtDir THEN aggregateEdges(es, i + 1, acc)
             ELSE IF key \in acc.edgeSet THEN aggregateEdges(es, i + 1, acc)
             ELSE aggregateEdges(es, i + 1,
                      [edgeSet |-> acc.edgeSet \cup {key},
                       edges |-> Append(acc.edges, Edge(srcDir, tgtDir))])

aggregateToDirectory(graph) ==
    Graph(dirSetOf(graph.nodes, 1, <<>>),
          aggregateEdges(graph.edges, 1, [edgeSet |-> {}, edges |-> <<>>]))

\* --------------------------------------------------- filterIsolatedNodes
\* connected without  connected.add(e.target)
connectedSourcesOnly(graph) == {graph.edges[i].source : i \in DOMAIN graph.edges}

connectedOf(graph) ==
    {graph.edges[i].source : i \in DOMAIN graph.edges}
        \cup {graph.edges[i].target : i \in DOMAIN graph.edges}

filterIsolatedNodes(graph) ==
    LET connected == connectedOf(graph)
        keep(n) == n \in connected
    IN  Graph(SelectSeq(graph.nodes, keep), graph.edges)

\* ------------------------------------------------------------ getGraphData
\* getGraphData that filters whatever the flag says
getGraphDataAlwaysFilter(g, gran, hide) ==
    filterIsolatedNodes(IF gran = "directory" THEN aggregateToDirectory(g) ELSE g)

getGraphData(g, gran, hide) ==
    LET base == IF gran = "directory" THEN aggregateToDirectory(g) ELSE g
    IN  IF hide THEN filterIsolatedNodes(base) ELSE base

\* ------------------------------------------ renderForceGraph: degree map
\* data.edges.forEach: both endpoints' counters are incremented
RECURSIVE degreeLoop(_, _, _)
degreeLoop(es, i, m) ==
    IF i > Len(es) THEN m
    ELSE LET m1 == MapSet(m, es[i].source, MapGetOr(m, es[i].source, 0) + 1)
             m2 == MapSet(m1, es[i].target, MapGetOr(m1, es[i].target, 0) + 1)
         IN  degreeLoop(es, i + 1, m2)

degreeMapOf(data) == degreeLoop(data.edges, 1, [n \in Range(data.nodes) |-> 0])

\* the group of a node: its parent directory, as in getDir
groupOf(id) ==
    IF lastIndexOf(id, "/") >= 0 THEN substring(id, 0, lastIndexOf(id, "/")) ELSE ROOT

\* nodes: GraphNode[] of renderForceGraph
graphNodesOf(data) ==
    LET degreeMap == degreeMapOf(data)
    IN  [i \in 1..Len(data.nodes) |->
            [id |-> data.nodes[i],
             group |-> groupOf(data.nodes[i]),
             degree |-> MapGetOr(degreeMap, data.nodes[i], 0)]]

\* links: the edges whose both endpoints are in nodeMap
linksOf(data) ==
    LET nodeMap == Range(data.nodes)
        known(e) == e.source \in nodeMap /\ e.target \in nodeMap
    IN  SelectSeq(data.edges, known)

\* ------------------------------------------- renderTreeGraph: the forest
RECURSIVE inDegreeLoop(_, _, _)
inDegreeLoop(es, i, m) ==
    IF i > Len(es) THEN m
    ELSE inDegreeLoop(es, i + 1,
             MapSet(m, es[i].target, MapGetOr(m, es[i].target, 0) + 1))

inDegreeOf(data) == inDegreeLoop(data.edges, 1, [n \in Range(data.nodes) |-> 0])

RECURSIVE childrenLoop(_, _, _)
childrenLoop(es, i, m) ==
    IF i > Len(es) THEN m
    ELSE LET m1 == IF es[i].source \in DOMAIN m THEN m ELSE MapSet(m, es[i].source, <<>>)
         IN  childrenLoop(es, i + 1,
                 MapSet(m1, es[i].source, Append(m1[es[i].source], es[i].target)))

childrenOf(data) == childrenLoop(data.edges, 1, EmptyMap)

\* every node a candidate root
rootsOfAny(data) == data.nodes

rootsOf(data) ==
    LET inDegree == inDegreeOf(data)
        isRoot(n) == MapGetOr(inDegree, n, 0) = 0
    IN  SelectSeq(data.nodes, isRoot)

TreeNode(name, kids) == [name |-> name, children |-> kids]

RECURSIVE buildTree(_, _, _), buildKids(_, _, _, _, _)

\* a buildTree that filters its kids before it marks itself visited
buildTreeLateMark(children, id, visited) ==
    LET unseen(c) == c \notin visited
        kids == SelectSeq(IF id \in DOMAIN children THEN children[id] ELSE <<>>, unseen)
        built == buildKids(children, kids, 1, visited \cup {id}, <<>>)
    IN  [tree |-> TreeNode(id, built.trees), visited |-> built.visited]

\* buildTree(id) with the closure's mutable visited set threaded through:
\* the result is [tree, visited].  kids is filtered once, on entry; the map
\* over kids then calls buildTree on each of them in turn.
buildTree(children, id, visited) ==
    LET visited1 == visited \cup {id}
        unseen(c) == c \notin visited1
        kids == SelectSeq(IF id \in DOMAIN children THEN children[id] ELSE <<>>, unseen)
        built == buildKids(children, kids, 1, visited1, <<>>)
    IN  [tree |-> TreeNode(id, built.trees), visited |-> built.visited]

buildKids(children, kids, i, visited, acc) ==
    IF i > Len(kids) THEN [trees |-> acc, visited |-> visited]
    ELSE LET r == buildTree(children, kids[i], visited)
         IN  buildKids(children, kids, i + 1, r.visited, Append(acc, r.tree))

PROJECT == <<"(", "p", "r", "o", "j", "e", "c", "t", ")">>

\* fullTree of renderTreeGraph, for data.nodes non-empty
fullTreeOf(data) ==
    LET children == childrenOf(data)
        roots == rootsOf(data)
        start == IF Len(roots) > 0 THEN roots ELSE <<data.nodes[1]>>
        rootTrees == buildKids(children, start, 1, {}, <<>>)
        unseen(n) == n \notin rootTrees.visited
        unvisited == SelectSeq(data.nodes, unseen)
    IN  TreeNode(PROJECT,
                 rootTrees.trees \o [i \in 1..Len(unvisited) |-> TreeNode(unvisited[i], <<>>)])

\* names of the nodes below a tree node (d3.hierarchy descendants, without the node)
RECURSIVE namesBelow(_), namesOfAll(_, _)
namesBelow(t) == namesOfAll(t.children, 1)
namesOfAll(ts, i) ==
    IF i > Len(ts) THEN <<>>
    ELSE <<ts[i].name>> \o namesBelow(ts[i]) \o namesOfAll(ts, i + 1)

\* ------------------------------------------------------------ nodeDetail
sourceIs(id, e) == e.source = id

\* the dependedBy filter written on the source, as the dependsOn filter is
targetIsSource(id, e) == e.source = id

targetIs(id, e) == e.target = id

dependsOnOf(data, id) ==
    LET mine(e) == sourceIs(id, e)
        es == SelectSeq(data.edges, mine)
    IN  [i \in 1..Len(es) |-> es[i].target]

dependedByOf(data, id) ==
    LET mine(e) == targetIs(id, e)
        es == SelectSeq(data.edges, mine)
    IN  [i \in 1..Len(es) |-> es[i].source]

\* null, and the value of nodeDetail when there is none
Null == <<"null">>
NoDetail == [id |-> Null, dependsOn |-> <<>>, dependedBy |-> <<>>]

\* if (!selectedNode) return null: null and the empty string are falsy
nodeDetailOf(selected, data) ==
    IF selected = Null \/ selected = <<>> THEN NoDetail
    ELSE [id |-> selected,
          dependsOn |-> dependsOnOf(data, selected),
          dependedBy |-> dependedByOf(data, selected)]

\* -------------------------------------------------- search highlighting
lowerChar(c) ==
    CASE c = "A" -> "a" [] c = "B" -> "b" [] c = "X" -> "x" [] c = "Z" -> "z" [] OTHER -> c

toLowerCase(s) == [i \in 1..Len(s) |-> lowerChar(s[i])]

includes(s, sub) ==
    \E i \in 0..(Len(s) - Len(sub)) : SubSeq(s, i + 1, i + Len(sub)) = sub

\* ------------------------------------------------------------------ state
VARIABLES
    graph,            \* the graph prop
    mounted,          \* the component is mounted
    viewMode, granularity, expanded, hideIsolated, searchTerm, selectedNode,
    canvas,           \* what the svg element holds
    sims,             \* the live force simulations: id -> status
    effectCleanup,    \* the simulation the render effect's cleanup stops, 0 for none
    resizeListeners,  \* window "resize" listeners: the closures they run
    keyListeners,     \* window "keydown" listeners: the closures they run
    timers,           \* pending setTimeout callbacks: the closures they run
    store,            \* the state object of useAppStore
    hook,             \* the refs, local state and pending calls of useBuildData
    trace             \* history: the last handler that ran and the adapter it invoked

viewState == <<viewMode, granularity, expanded, hideIsolated, searchTerm, selectedNode>>
vars == <<graph, mounted, viewMode, granularity, expanded, hideIsolated, searchTerm,
          selectedNode, canvas, sims, effectCleanup, resizeListeners, keyListeners, timers,
          store, hook, trace>>

\* the variables of the topology view
viewVars == <<graph, mounted, viewMode, granularity, expanded, hideIsolated, searchTerm,
              selectedNode, canvas, sims, effectCleanup, resizeListeners, keyListeners, timers>>

\* ------------------------------------------------------- the input domain
Paths == {<<"a", "/", "x">>, <<"b">>, <<"z">>}

RECURSIVE SeqsUpTo(_, _)
SeqsUpTo(S, n) ==
    IF n = 0 THEN {<<>>}
    ELSE LET shorter == SeqsUpTo(S, n - 1)
         IN  shorter \cup {Append(q, x) : q \in {r \in shorter : Len(r) = n - 1}, x \in S}

NoDuplicates(q) == \A i, j \in DOMAIN q : i # j => q[i] # q[j]

EdgesOver == {Edge(s, t) : s \in Paths, t \in Paths}

\* every list of unique node ids over Paths, in every order
NodeLists == {q \in SeqsUpTo(Paths, Cardinality(Paths)) : NoDuplicates(q)}

\* every graph with unique node ids and at most MaxEdges edges; an edge may
\* name a path that is not a node, repeat another edge or be a self-loop
AllGraphs == {Graph(ns, es) : ns \in NodeLists, es \in SeqsUpTo(EdgesOver, MaxEdges)}

\* two three-edge shapes over the three paths: the cycle x -> y -> z -> x and
\* the diamond x -> y, x -> z, y -> z (two paths to z)
ShapeGraphs ==
    LET x == <<"a", "/", "x">>
        y == <<"b">>
        z == <<"z">>
    IN  {Graph(<<x, y, z>>, <<Edge(x, y), Edge(y, z), Edge(z, x)>>),
         Graph(<<x, y, z>>, <<Edge(x, y), Edge(x, z), Edge(y, z)>>)}

SampleGraphs ==
    {Graph(<<<<"a", "/", "x">>, <<"b">>, <<"z">>>>,
           <<Edge(<<"a", "/", "x">>, <<"b">>), Edge(<<"b">>, <<"z">>)>>),
     Graph(<<<<"b">>>>, <<>>)}

SearchTerms == {<<>>, <<"B">>}
Keys == {"Escape", "a"}

\* ------------------------------------------------------------- the canvas
EmptyTree == TreeNode(<<>>, <<>>)

Cleared ==
    [kind |-> "cleared", nodes |-> <<>>, links |-> <<>>, linkOpacity |-> 100,
     tree |-> EmptyTree, sim |-> 0]

\* the values a render function closes over
Closure(vm, g, gr, hi, st) ==
    [viewMode |-> vm, graph |-> g, granularity |-> gr, hideIsolated |-> hi, searchTerm |-> st]

CurClosure == Closure(viewMode, graph, granularity, hideIsolated, searchTerm)

\* the circles of renderForceGraph, with the opacity the search highlight sets
circlesOf(data, term) ==
    LET ns == graphNodesOf(data)
        lowerSearch == toLowerCase(term)
    IN  [i \in 1..Len(ns) |->
            [id |-> ns[i].id, group |-> ns[i].group, degree |-> ns[i].degree,
             opacity |-> IF lowerSearch # <<>> /\ ~includes(toLowerCase(ns[i].id), lowerSearch)
                         THEN 15 ELSE 100]]

\* --------------------------------------------------------- simulations
Running(ss) == {i \in DOMAIN ss : ss[i] = "running"}

\* d3.forceSimulation(nodes): a new running simulation under a fresh id
freshSim(ss) == CHOOSE i \in 1..(MaxSims + 1) : i \notin DOMAIN ss /\ \A j \in 1..(i - 1) : j \in DOMAIN ss
startSim(ss) == MapSet(ss, freshSim(ss), "running")

\* simulation.stop()
stopSim(ss, id) == IF id \in DOMAIN ss THEN [ss EXCEPT ![id] = "stopped"] ELSE ss

\* a simulation that is not running and that nothing refers to is garbage
collect(ss, refs) == [i \in {j \in DOMAIN ss : ss[j] = "running" \/ j \in refs} |-> ss[i]]

\* ------------------------------------------------------ render functions
\* each gives the canvas, the simulations, the cleanup it returns (0: undefined)
\* and its own name
\* a renderForceGraph without the return on an empty node list
renderForceGraphNoGuard(c, ss) ==
    LET data == getGraphData(c.graph, c.granularity, c.hideIsolated)
    IN  [canvas |-> [kind |-> "force",
                     nodes |-> circlesOf(data, c.searchTerm),
                     links |-> linksOf(data),
                     linkOpacity |-> IF toLowerCase(c.searchTerm) # <<>> THEN 8 ELSE 100,
                     tree |-> EmptyTree,
                     sim |-> freshSim(ss)],
         sims |-> startSim(ss),
         cleanup |-> freshSim(ss),
         adapter |-> "force"]

renderForceGraph(c, ss) ==
    LET data == getGraphData(c.graph, c.granularity, c.hideIsolated)
    IN  IF Len(data.nodes) = 0
        THEN [canvas |-> Cleared, sims |-> ss, cleanup |-> 0, adapter |-> "force"]
        ELSE [canvas |-> [kind |-> "force",
                          nodes |-> circlesOf(data, c.searchTerm),
                          links |-> linksOf(data),
                          linkOpacity |-> IF toLowerCase(c.searchTerm) # <<>> THEN 8 ELSE 100,
                          tree |-> EmptyTree,
                          sim |-> freshSim(ss)],
              sims |-> startSim(ss),
              cleanup |-> freshSim(ss),
              adapter |-> "force"]

renderTreeGraph(c, ss) ==
    LET data == getGraphData(c.graph, c.granularity, c.hideIsolated)
    IN  IF Len(data.nodes) = 0
        THEN [canvas |-> Cleared, sims |-> ss, cleanup |-> 0, adapter |-> "tree"]
        ELSE [canvas |-> [kind |-> "tree", nodes |-> <<>>, links |-> <<>>,
                          linkOpacity |-> 100, tree |-> fullTreeOf(data), sim |-> 0],
              sims |-> ss,
              cleanup |-> 0,
              adapter |-> "tree"]

\* the circles and labels of renderTreeGraph: it sets no opacity on them, so
\* each is drawn at the default, whatever the search text
treeOpacityOf(name, term) == 100

\* a dispatch that ignores the view mode
renderByModeForceOnly(c, ss) == renderForceGraph(c, ss)

\* if (viewMode === "force") renderForceGraph(); else renderTreeGraph();
renderByMode(c, ss) ==
    IF c.viewMode = "force" THEN renderForceGraph(c, ss) ELSE renderTreeGraph(c, ss)

\* ------------------------------------------------------------- history
\* trace records, for the specifications that start it, the handler that ran
\* last (event), the layout adapter that handler invoked ("none" when it
\* invoked none) and whether a fullscreen toggle is still waiting for the
\* adapter of the current view mode to run (due).
Event(n, a) == [name |-> n, arg |-> a]

\* the history is not recorded
Untraced == [event |-> Event("off", <<>>), adapter |-> "none", due |-> FALSE]

\* the history after the mount: the render effect has invoked the force adapter
Started == [event |-> Event("Mount", <<>>), adapter |-> "force", due |-> FALSE]

Note(e, a, d) ==
    trace' = IF trace = Untraced THEN Untraced ELSE [event |-> e, adapter |-> a, due |-> d]

\* ------------------------------------------------------------- effects
\* window.removeEventListener(type, handler)
removeListener(listeners, handler) == listeners \ {handler}

\* a cleanup that leaves the timer pending
clearTimeoutNoop(pending) == pending

\* clearTimeout(timer) of the fullscreen effect: its timer is the pending one
clearTimeout(pending) == {}

\* the cleanup the render effect holds: () => { simulation.stop(); }, or none
runCleanup(ss, handle) == IF handle # 0 THEN stopSim(ss, handle) ELSE ss

KeyHandler(exp) == [expanded |-> exp]

\* The render effect and the resize effect, both with the dependencies
\* [viewMode, renderForceGraph, renderTreeGraph]: the cleanups of the previous
\* run (closure c1), then the bodies under the new closure c2.
RenderEffects(c1, c2, ev) ==
    LET cleaned == collect(runCleanup(sims, effectCleanup), {})
        r == renderByMode(c2, cleaned)
    IN  /\ DOMAIN r.sims \subseteq 1..MaxSims
        /\ canvas' = r.canvas
        /\ sims' = r.sims
        /\ effectCleanup' = r.cleanup
        /\ resizeListeners' = removeListener(resizeListeners, c1) \cup {c2}
        /\ Note(ev, r.adapter, FALSE)

\* a fullscreen effect that schedules no timer
ExpandedEffectsNoTimer(exp1, exp2, c2) ==
    /\ keyListeners' = removeListener(keyListeners, KeyHandler(exp1)) \cup {KeyHandler(exp2)}
    /\ timers' = clearTimeout(timers)

\* The Escape effect and the delayed re-render effect, both with the
\* dependencies [expanded]; the timer callback closes over the render functions
\* of the render that scheduled it.
ExpandedEffects(exp1, exp2, c2) ==
    /\ keyListeners' = removeListener(keyListeners, KeyHandler(exp1)) \cup {KeyHandler(exp2)}
    /\ timers' = clearTimeout(timers) \cup {c2}

\* a render function called from a listener or a timer: its cleanup is dropped
RenderDetached(c, ev) ==
    LET r == renderByMode(c, collect(sims, {effectCleanup}))
    IN  /\ DOMAIN r.sims \subseteq 1..MaxSims
        /\ canvas' = r.canvas
        /\ sims' = r.sims
        /\ Note(ev, r.adapter, IF r.adapter = viewMode THEN FALSE ELSE trace.due)

\* --------------------------------------------------------------- store
\* The state object of useAppStore. An id and a build result are written as
\* text, null as Null; selectedModules, a JavaScript Set that the store only
\* reads through has() and rebuilds on every change, is the set of its members.
PageIds == {"projects", "build", "analysis", "settings", "about"}

\* the pages the navigation is driven to
VisitedPages == {"build", "analysis"}

ModuleInfo(n) == [name |-> n, path |-> <<"modules", n>>]
ModuleNames == {"auth", "billing"}
ModuleLists ==
    {<<>>, <<ModuleInfo("auth")>>, <<ModuleInfo("auth"), ModuleInfo("billing")>>}

\* the rows a list of the project management slice is set to
Rows == {<<>>, <<[id |-> "1"]>>}
ProjectIds == {Null, <<"1">>}
BuildResults == {Null, <<"dist.zip">>}

InitialStore ==
    [currentPage |-> "build",
     sidebarCollapsed |-> FALSE,
     categories |-> <<>>,
     projects |-> <<>>,
     selectedProjectId |-> Null,
     clients |-> <<>>,
     buildRecords |-> <<>>,
     modules |-> <<>>,
     selectedModules |-> {},
     isBuilding |-> FALSE,
     buildResult |-> Null]

\* zustand's set(partial): the fields of partial are merged into the state
set(state, partial) ==
    [k \in DOMAIN state |-> IF k \in DOMAIN partial THEN partial[k] ELSE state[k]]

\* state.modules.map((m) => m.name), as the members of the Set built from it
moduleNames(modules) == {modules[i].name : i \in DOMAIN modules}

\* ------------------------------------------------------- useBuildData
\* The hook's own state: selectedClientId (useState), unlistenRef (useRef,
\* 0 for null, else the listener its unlisten function removes), the
\* "build-log" listeners registered with the event system, the handleBuild
\* calls made so far with the await each of them is at (a call at "build"
\* has invoked build_project_package and awaits it, and so on), the loader
\* calls whose answer is outstanding, and the module names captured by
\* outstanding loadClientModuleConfig calls.
NoHook ==
    [mounted |-> FALSE, selectedClientId |-> Null, unlistenRef |-> 0, listeners |-> {},
     calls |-> <<>>, pending |-> {}, configs |-> {}]

\* ---------------------------------------------------------------- Init
InitialView ==
    /\ viewMode = "force"
    /\ granularity = "file"
    /\ expanded = FALSE
    /\ hideIsolated = TRUE
    /\ searchTerm = <<>>
    /\ selectedNode = Null

\* the useState initial values, for a component that mounts (again)
ResetView ==
    /\ viewMode' = "force"
    /\ granularity' = "file"
    /\ expanded' = FALSE
    /\ hideIsolated' = TRUE
    /\ searchTerm' = <<>>
    /\ selectedNode' = Null

\* the state after the first commit of the component on graph g
MountedOn(g) ==
    LET c == Closure("force", g, "file", TRUE, <<>>)
        r == renderByMode(c, EmptyMap)
    IN  /\ graph = g
        /\ mounted = TRUE
        /\ InitialView
        /\ canvas = r.canvas
        /\ sims = r.sims
        /\ effectCleanup = r.cleanup
        /\ resizeListeners = {c}
        /\ keyListeners = {KeyHandler(FALSE)}
        /\ timers = {c}
        /\ store = set(InitialStore, [currentPage |-> "analysis"])
        /\ hook = NoHook

Init == \E g \in SampleGraphs : MountedOn(g) /\ trace = Untraced

InitGraph == \E g \in AllGraphs \cup ShapeGraphs : MountedOn(g) /\ trace = Untraced

\* -------------------------------------------------------------- actions
\* the view-mode buttons: setViewMode(m)
SetViewMode(m) ==
    /\ mounted
    /\ m # viewMode
    /\ viewMode' = m
    /\ RenderEffects(CurClosure, Closure(m, graph, granularity, hideIsolated, searchTerm),
                     Event("SetViewMode", <<m>>))
    /\ UNCHANGED <<graph, mounted, granularity, expanded, hideIsolated, searchTerm,
                   selectedNode, keyListeners, timers, store, hook>>

\* the granularity buttons: setGranularity(g)
SetGranularity(g) ==
    /\ mounted
    /\ g # granularity
    /\ granularity' = g
    /\ RenderEffects(CurClosure, Closure(viewMode, graph, g, hideIsolated, searchTerm),
                     Event("SetGranularity", <<g>>))
    /\ UNCHANGED <<graph, mounted, viewMode, expanded, hideIsolated, searchTerm,
                   selectedNode, keyListeners, timers, store, hook>>

\* the isolated-nodes button: setHideIsolated((v) => !v)
ToggleHideIsolated ==
    /\ mounted
    /\ hideIsolated' = ~hideIsolated
    /\ RenderEffects(CurClosure, Closure(viewMode, graph, granularity, ~hideIsolated, searchTerm),
                     Event("ToggleHideIsolated", <<>>))
    /\ UNCHANGED <<graph, mounted, viewMode, granularity, expanded, searchTerm,
                   selectedNode, keyListeners, timers, store, hook>>

\* the search box: setSearchTerm(e.target.value), and its clear button
SetSearchTerm(t) ==
    /\ mounted
    /\ t # searchTerm
    /\ searchTerm' = t
    /\ RenderEffects(CurClosure, Closure(viewMode, graph, granularity, hideIsolated, t),
                     Event("SetSearchTerm", t))
    /\ UNCHANGED <<graph, mounted, viewMode, granularity, expanded, hideIsolated,
                   selectedNode, keyListeners, timers, store, hook>>

\* a change of expanded to e, and the effects that depend on it
ExpandedTo(e, ev) ==
    /\ expanded' = e
    /\ ExpandedEffects(expanded, e, CurClosure)
    /\ Note(ev, "none", TRUE)
    /\ UNCHANGED <<graph, mounted, viewMode, granularity, hideIsolated, searchTerm,
                   selectedNode, canvas, sims, effectCleanup, resizeListeners, store, hook>>

\* the fullscreen button: setExpanded((v) => !v)
ToggleExpanded ==
    /\ mounted
    /\ ExpandedTo(~expanded, Event("ToggleExpanded", <<>>))

\* a listener that leaves fullscreen on any key
handleKeyDownAnyKey(key, h) == h.expanded

\* if (e.key === "Escape" && expanded) of the listener's closure h
handleKeyDown(key, h) == key = "Escape" /\ h.expanded

\* a keydown event on window: the listener calls setExpanded(false) or does
\* nothing; setExpanded(false) on a collapsed view changes nothing
KeyDown(key) ==
    /\ keyListeners # {}
    /\ IF \E h \in keyListeners : handleKeyDown(key, h) /\ expanded
       THEN ExpandedTo(FALSE, Event("KeyDown", <<key>>))
       ELSE /\ Note(Event("KeyDown", <<key>>), "none", trace.due)
            /\ UNCHANGED <<viewVars, store, hook>>

\* a resize event on window
Resize ==
    /\ \E c \in resizeListeners : RenderDetached(c, Event("Resize", <<>>))
    /\ UNCHANGED <<graph, mounted, viewState, effectCleanup, resizeListeners,
                   keyListeners, timers, store, hook>>

\* the 50 ms timer of the fullscreen effect fires
TimerFire ==
    /\ \E c \in timers :
          /\ RenderDetached(c, Event("TimerFire", <<>>))
          /\ timers' = timers \ {c}
    /\ UNCHANGED <<graph, mounted, viewState, effectCleanup, resizeListeners, keyListeners,
                   store, hook>>

\* an updater that clears whatever is selected
toggleSelectedClearAny(prev, id) == IF prev # Null THEN Null ELSE id

\* the updater (prev) => (prev === d.id ? null : d.id)
toggleSelected(prev, id) == IF prev = id THEN Null ELSE id

\* a click on a circle of the force graph
ClickNode(id) ==
    /\ mounted
    /\ canvas.kind = "force"
    /\ \E i \in DOMAIN canvas.nodes : canvas.nodes[i].id = id
    /\ selectedNode' = toggleSelected(selectedNode, id)
    /\ Note(Event("ClickNode", id), "none", trace.due)
    /\ UNCHANGED <<graph, mounted, viewMode, granularity, expanded, hideIsolated, searchTerm,
                   canvas, sims, effectCleanup, resizeListeners, keyListeners, timers, store, hook>>

\* the close button of the detail panel, shown when nodeDetail is not null
CloseDetail ==
    /\ mounted
    /\ selectedNode # Null /\ selectedNode # <<>>
    /\ selectedNode' = Null
    /\ Note(Event("CloseDetail", <<>>), "none", trace.due)
    /\ UNCHANGED <<graph, mounted, viewMode, granularity, expanded, hideIsolated, searchTerm,
                   canvas, sims, effectCleanup, resizeListeners, keyListeners, timers, store, hook>>

\* a drag on a circle: simulation.alphaTarget(0.3).restart()
DragNode ==
    /\ mounted
    /\ canvas.kind = "force"
    /\ canvas.sim \in DOMAIN sims
    /\ sims[canvas.sim] # "running"
    /\ sims' = [sims EXCEPT ![canvas.sim] = "running"]
    /\ Note(Event("DragNode", <<>>), "none", trace.due)
    /\ UNCHANGED <<graph, mounted, viewState, canvas, effectCleanup, resizeListeners,
                   keyListeners, timers, store, hook>>

\* a running simulation cools down below alphaMin and stops its own timer
SimSettle(i) ==
    /\ i \in Running(sims)
    /\ sims' = collect([sims EXCEPT ![i] = "stopped"], {effectCleanup, canvas.sim})
    /\ Note(Event("SimSettle", <<>>), "none", trace.due)
    /\ UNCHANGED <<graph, mounted, viewState, canvas, effectCleanup, resizeListeners,
                   keyListeners, timers, store, hook>>

\* the parent passes a new graph object (a new analysis run)
ReplaceGraph(g) ==
    /\ mounted
    /\ graph' = g
    /\ RenderEffects(CurClosure, Closure(viewMode, g, granularity, hideIsolated, searchTerm),
                     Event("ReplaceGraph", <<>>))
    /\ UNCHANGED <<mounted, viewState, keyListeners, timers, store, hook>>

\* the component unmounts: every effect's cleanup runs, the state is dropped
Unmount ==
    /\ mounted
    /\ mounted' = FALSE
    /\ keyListeners' = removeListener(keyListeners, KeyHandler(expanded))
    /\ sims' = collect(runCleanup(sims, effectCleanup), {})
    /\ effectCleanup' = 0
    /\ resizeListeners' = removeListener(resizeListeners, CurClosure)
    /\ timers' = clearTimeout(timers)
    /\ canvas' = Cleared
    /\ ResetView
    /\ Note(Event("Unmount", <<>>), "none", FALSE)
    /\ UNCHANGED <<graph, store, hook>>

\* the component mounts again on the graph the parent holds
Mount ==
    /\ ~mounted
    /\ mounted' = TRUE
    /\ ResetView
    /\ LET c == Closure("force", graph, "file", TRUE, <<>>)
       IN  /\ RenderEffects(c, c, Event("Mount", <<>>))
           /\ ExpandedEffects(FALSE, FALSE, c)
    /\ UNCHANGED <<graph, store, hook>>

\* -------------------------------------------------------- store actions
\* a store action: set(partial), seen by no mounted topology view
StoreSet(partial, ev) ==
    /\ store' = set(store, partial)
    /\ Note(ev, "none", trace.due)
    /\ UNCHANGED <<viewVars, hook>>

\* a page setter that also clears the module selection
setCurrentPageAndClear(page) ==
    StoreSet([currentPage |-> page, selectedModules |-> {}], Event("setCurrentPage", <<page>>))

setCurrentPage(page) ==
    StoreSet([currentPage |-> page], Event("setCurrentPage", <<page>>))

toggleSidebar ==
    StoreSet([sidebarCollapsed |-> ~store.sidebarCollapsed], Event("toggleSidebar", <<>>))

setCategories(categories) ==
    StoreSet([categories |-> categories], Event("setCategories", <<>>))

setProjects(projects) ==
    StoreSet([projects |-> projects], Event("setProjects", <<>>))

setSelectedProjectId(id) ==
    StoreSet([selectedProjectId |-> id], Event("setSelectedProjectId", <<>>))

setClients(clients) ==
    StoreSet([clients |-> clients], Event("setClients", <<>>))

setBuildRecords(records) ==
    StoreSet([buildRecords |-> records], Event("setBuildRecords", <<>>))

resetProjectManagement ==
    StoreSet([categories |-> <<>>, projects |-> <<>>, selectedProjectId |-> Null,
              clients |-> <<>>, buildRecords |-> <<>>],
             Event("resetProjectManagement", <<>>))

setModules(modules) ==
    StoreSet([modules |-> modules], Event("setModules", <<>>))

\* a toggle that only ever adds
toggledAddOnly(selected, name) == selected \cup {name}

\* next = new Set(state.selectedModules); has(name) ? delete(name) : add(name)
toggled(selected, name) ==
    IF name \in selected THEN selected \ {name} ELSE selected \cup {name}

toggleModule(name) ==
    StoreSet([selectedModules |-> toggled(store.selectedModules, name)],
             Event("toggleModule", <<name>>))

selectAll ==
    StoreSet([selectedModules |-> moduleNames(store.modules)], Event("selectAll", <<>>))

\* an inversion that keeps what was selected
invertedKeepSelected(modules, selected) ==
    selected \cup {modules[i].name : i \in {j \in DOMAIN modules : modules[j].name \notin selected}}

\* for (const m of state.modules) if (!state.selectedModules.has(m.name)) next.add(m.name)
inverted(modules, selected) ==
    {modules[i].name : i \in {j \in DOMAIN modules : modules[j].name \notin selected}}

invertSelection ==
    StoreSet([selectedModules |-> inverted(store.modules, store.selectedModules)],
             Event("invertSelection", <<>>))

setBuildingState(building) ==
    StoreSet([isBuilding |-> building], Event("setBuildingState", <<>>))

setBuildResult(result) ==
    StoreSet([buildResult |-> result], Event("setBuildResult", <<>>))

\* a reset to the initial state, the page included
resetWithPage == StoreSet(InitialStore, Event("reset", <<>>))

reset ==
    StoreSet([categories |-> <<>>, projects |-> <<>>, selectedProjectId |-> Null,
              clients |-> <<>>, buildRecords |-> <<>>, modules |-> <<>>,
              selectedModules |-> {}, isBuilding |-> FALSE, buildResult |-> Null],
             Event("reset", <<>>))

Next ==
    \/ \E m \in {"force", "tree"} : SetViewMode(m)
    \/ \E g \in {"file", "directory"} : SetGranularity(g)
    \/ ToggleHideIsolated
    \/ \E t \in SearchTerms : SetSearchTerm(t)
    \/ ToggleExpanded
    \/ \E k \in Keys : KeyDown(k)
    \/ Resize
    \/ TimerFire
    \/ DragNode
    \/ \E i \in 1..MaxSims : SimSettle(i)
    \/ \E g \in SampleGraphs : ReplaceGraph(g)
    \/ Unmount
    \/ Mount

Spec == Init /\ [][Next]_vars

\* the graph transforms over every bounded graph: the view toggles that
\* re-derive the displayed graph and redraw it
NextGraph ==
    \/ \E m \in {"force", "tree"} : SetViewMode(m)
    \/ \E g \in {"file", "directory"} : SetGranularity(g)
    \/ ToggleHideIsolated

SpecGraph == InitGraph /\ [][NextGraph]_vars

\* the graph transforms over files whose directory names contain the two
\* characters of the edge key's arrow: a->b/x, c/x, a/x and b->c/x
ArrowPaths ==
    {<<"a", "-", ">", "b", "/", "x">>, <<"c", "/", "x">>,
     <<"a", "/", "x">>, <<"b", "-", ">", "c", "/", "x">>}

ArrowGraphs ==
    {Graph(<<<<"a", "-", ">", "b", "/", "x">>, <<"c", "/", "x">>,
             <<"a", "/", "x">>, <<"b", "-", ">", "c", "/", "x">>>>, es) :
        es \in SeqsUpTo({Edge(s, t) : s \in ArrowPaths, t \in ArrowPaths}, MaxEdges)}

InitArrow == \E g \in ArrowGraphs : MountedOn(g) /\ trace = Untraced

SpecArrow == InitArrow /\ [][NextGraph]_vars

\* selection over a family of graphs: the clicks and the toggles that change
\* the displayed graph under a selection
SelectGraphs ==
    {Graph(<<<<"a", "/", "x">>, <<"b">>, <<"z">>>>, es) : es \in SeqsUpTo(EdgesOver, MaxEdges)}

InitSelect == \E g \in SelectGraphs : MountedOn(g) /\ trace = Untraced

NextSelect ==
    \/ \E id \in Paths \cup {ROOT, <<"a">>} : ClickNode(id)
    \/ CloseDetail
    \/ \E g \in {"file", "directory"} : SetGranularity(g)
    \/ ToggleHideIsolated
    \/ \E g \in SampleGraphs : ReplaceGraph(g)

SpecSelect == InitSelect /\ [][NextSelect]_vars

\* the overlays (search text, selection) in both view modes, with the history
\* of the handlers recorded
ClickIds == Paths \cup {ROOT, <<"a">>}

InitOverlay == \E g \in SampleGraphs : MountedOn(g) /\ trace = Started

NextOverlay ==
    \/ \E id \in ClickIds : ClickNode(id)
    \/ CloseDetail
    \/ \E t \in SearchTerms : SetSearchTerm(t)
    \/ \E m \in {"force", "tree"} : SetViewMode(m)
    \/ \E g \in {"file", "directory"} : SetGranularity(g)

SpecOverlay == InitOverlay /\ [][NextOverlay]_vars

\* the rebuild triggers, with the history recorded. A setTimeout callback
\* that is not cleared runs (after 50 ms): a step that empties a non-empty
\* timers is TimerFire, and it is fair whenever a callback is pending, the
\* bound on simulations notwithstanding.
InitRebuild == \E g \in SampleGraphs : MountedOn(g) /\ trace = Started

SimSettles == \E i \in 1..MaxSims : SimSettle(i)

TimerRuns == timers # {} /\ timers' = {}

NextRebuild ==
    \/ \E m \in {"force", "tree"} : SetViewMode(m)
    \/ \E g \in {"file", "directory"} : SetGranularity(g)
    \/ ToggleHideIsolated
    \/ Resize
    \/ ToggleExpanded
    \/ TimerFire
    \/ SimSettles
    \/ \E g \in SampleGraphs : ReplaceGraph(g)

SpecRebuild == InitRebuild /\ [][NextRebuild]_vars /\ WF_timers(TimerRuns)

\* the keyboard and the fullscreen button, with the history recorded
InitKeys == \E g \in SampleGraphs : MountedOn(g) /\ trace = Started

NextKeys ==
    \/ \E k \in Keys : KeyDown(k)
    \/ ToggleExpanded
    \/ TimerFire
    \/ \E m \in {"force", "tree"} : SetViewMode(m)
    \/ \E t \in SearchTerms : SetSearchTerm(t)

SpecKeys == InitKeys /\ [][NextKeys]_vars

\* the store on its own: no topology view is mounted
NotMounted ==
    /\ graph = Graph(<<>>, <<>>)
    /\ mounted = FALSE
    /\ InitialView
    /\ canvas = Cleared
    /\ sims = EmptyMap
    /\ effectCleanup = 0
    /\ resizeListeners = {}
    /\ keyListeners = {}
    /\ timers = {}

\* the history after create(...)
Created == [event |-> Event("create", <<>>), adapter |-> "none", due |-> FALSE]

InitStore == NotMounted /\ store = InitialStore /\ hook = NoHook /\ trace = Created

NextStore ==
    \/ \E page \in VisitedPages : setCurrentPage(page)
    \/ toggleSidebar
    \/ \E categories \in Rows : setCategories(categories)
    \/ \E projects \in Rows : setProjects(projects)
    \/ \E id \in ProjectIds : setSelectedProjectId(id)
    \/ \E clients \in Rows : setClients(clients)
    \/ \E records \in Rows : setBuildRecords(records)
    \/ resetProjectManagement
    \/ \E modules \in ModuleLists : setModules(modules)
    \/ \E name \in ModuleNames : toggleModule(name)
    \/ selectAll
    \/ invertSelection
    \/ \E building \in BOOLEAN : setBuildingState(building)
    \/ \E result \in BuildResults : setBuildResult(result)
    \/ reset

SpecStore == InitStore /\ [][NextStore]_vars

\* ------------------------------------------------ useBuildData: actions
\* the handleBuild calls the model follows
MaxCalls == 2

ClientIds == {Null, <<"1">>}

\* what db_load_client_modules answers: null, or the remembered module names
RememberedModules == {<<"null">>} \cup {<<n>> : n \in ModuleNames}

\* a step of the hook: the hook and the store after it, seen by no topology view
HookStep(h, st, ev) ==
    /\ hook' = h
    /\ store' = st
    /\ Note(ev, "none", trace.due)
    /\ UNCHANGED viewVars

\* projects.find((p) => p.id === selectedProjectId) finds a project
projectFound(st) ==
    /\ st.selectedProjectId # Null
    /\ \E i \in DOMAIN st.projects : <<st.projects[i].id>> = st.selectedProjectId

\* clients.find((c) => c.id === selectedClientId) finds a client
clientFound(st, h) ==
    /\ h.selectedClientId # Null
    /\ \E i \in DOMAIN st.clients : <<st.clients[i].id>> = h.selectedClientId

\* the effect on [selectedProjectId, projects, ...]: without a project the
\* lists are emptied; with a known one the modules are scanned and the
\* clients and the build records loaded; the client selection is dropped
projectEffect(h, st) ==
    IF st.selectedProjectId = Null
    THEN [hook |-> [h EXCEPT !.selectedClientId = Null],
          store |-> set(st, [clients |-> <<>>, buildRecords |-> <<>>, modules |-> <<>>])]
    ELSE IF ~projectFound(st)
    THEN [hook |-> h, store |-> st]
    ELSE [hook |-> [h EXCEPT !.selectedClientId = Null,
                             !.pending = @ \cup {"scan", "clients", "records"}],
          store |-> st]

\* the project selector: setSelectedProjectId(id), then the effect
selectProject(id) ==
    /\ hook.mounted
    /\ LET r == projectEffect(hook, set(store, [selectedProjectId |-> id]))
       IN  HookStep(r.hook, r.store, Event("selectProject", id))

\* loadProjects answers: setProjects(list), then the effect (projects is one
\* of its dependencies) if the hook is still mounted; a failure only toasts
projectsLoaded(list) ==
    /\ "projects" \in hook.pending
    /\ LET h == [hook EXCEPT !.pending = @ \ {"projects"}]
           st == set(store, [projects |-> list])
           r == IF hook.mounted THEN projectEffect(h, st) ELSE [hook |-> h, store |-> st]
       IN  HookStep(r.hook, r.store, Event("projectsLoaded", <<>>))

\* scanModules answers: setModules(list), or setModules([]) on a failure
modulesScanned(list) ==
    /\ "scan" \in hook.pending
    /\ HookStep([hook EXCEPT !.pending = @ \ {"scan"}], set(store, [modules |-> list]),
                Event("modulesScanned", <<>>))

\* loadClients answers: setClients(list), or setClients([]) on a failure
clientsLoaded(list) ==
    /\ "clients" \in hook.pending
    /\ HookStep([hook EXCEPT !.pending = @ \ {"clients"}], set(store, [clients |-> list]),
                Event("clientsLoaded", <<>>))

\* loadBuildRecords of the effect answers
recordsLoaded(list) ==
    /\ "records" \in hook.pending
    /\ HookStep([hook EXCEPT !.pending = @ \ {"records"}],
                set(store, [buildRecords |-> list]), Event("recordsLoaded", <<>>))

\* handleClientChange(clientId): with a client, a project and modules it
\* calls loadClientModuleConfig, which closes over the current modules
handleClientChange(clientId) ==
    /\ hook.mounted
    /\ LET load == /\ clientId # Null
                   /\ store.selectedProjectId # Null
                   /\ Len(store.modules) > 0
       IN  HookStep([hook EXCEPT !.selectedClientId = clientId,
                                 !.configs = IF load THEN @ \cup {moduleNames(store.modules)}
                                             ELSE @],
                    store, Event("handleClientChange", clientId))

\* db_load_client_modules answers: the remembered names that are names of the
\* captured modules become the selection; null leaves the selection alone
clientConfigLoaded(captured, json) ==
    /\ captured \in hook.configs
    /\ HookStep([hook EXCEPT !.configs = @ \ {captured}],
                IF json = <<"null">> THEN store
                ELSE set(store, [selectedModules |-> Range(json) \cap captured]),
                Event("clientConfigLoaded", json))

\* the part of startLogListener before its await: the old listener is removed
startLogListener(h) ==
    IF h.unlistenRef # 0
    THEN [h EXCEPT !.listeners = @ \ {h.unlistenRef}, !.unlistenRef = 0]
    ELSE h

\* stopLogListener
stopLogListener(h) ==
    IF h.unlistenRef # 0
    THEN [h EXCEPT !.listeners = @ \ {h.unlistenRef}, !.unlistenRef = 0]
    ELSE h

\* the four checks handleBuild makes before it starts
validated(h, st) ==
    /\ projectFound(st)
    /\ st.selectedModules # {}
    /\ h.selectedClientId # Null
    /\ clientFound(st, h)

\* a handleBuild that builds whatever the checks say
handleBuildUnchecked ==
    /\ hook.mounted
    /\ Len(hook.calls) < MaxCalls
    /\ HookStep([hook EXCEPT !.calls = Append(@, "build")], store,
                Event("handleBuild", <<"accepted">>))

\* handleBuild up to its first await: a failed check toasts and returns;
\* otherwise isBuilding is set, buildResult cleared and startLogListener
\* called, which awaits listen()
handleBuild ==
    /\ hook.mounted
    /\ IF ~validated(hook, store)
       THEN HookStep(hook, store, Event("handleBuild", <<"rejected">>))
       ELSE /\ Len(hook.calls) < MaxCalls
            /\ HookStep([startLogListener(hook) EXCEPT !.calls = Append(@, "listen")],
                        set(store, [isBuilding |-> TRUE, buildResult |-> Null]),
                        Event("handleBuild", <<"accepted">>))

\* a finally block that only stops the listener
finishKeepBuilding(h, st, c) ==
    [hook |-> [stopLogListener(h) EXCEPT !.calls[c] = "done"], store |-> st]

\* the finally block of call c: stopLogListener(); setBuildingState(false)
finish(h, st, c) ==
    [hook |-> [stopLogListener(h) EXCEPT !.calls[c] = "done"],
     store |-> set(st, [isBuilding |-> FALSE])]

\* call c goes on to its next await, invoking the backend command of it
invoke(h, c, pc) == [h EXCEPT !.calls[c] = pc]

\* the await of call c settles, with a value (ok) or an exception, and the
\* call runs on to its next await or through its finally block.  listen()
\* registers the listener of this call and gives its unlisten function.
resume(c, ok, result) ==
    /\ c \in DOMAIN hook.calls
    /\ LET pc == hook.calls[c]
           r == CASE pc = "listen" ->
                       [hook |-> invoke([hook EXCEPT !.listeners = @ \cup {c},
                                                     !.unlistenRef = c], c, "build"),
                        store |-> store]
                  [] pc = "build" /\ ok ->
                       [hook |-> invoke(hook, c, "version"),
                        store |-> set(store, [buildResult |-> result])]
                  [] pc = "version" /\ ok ->
                       [hook |-> invoke(hook, c, "lastModules"), store |-> store]
                  [] pc = "lastModules" ->
                       [hook |-> invoke(hook, c, "record"), store |-> store]
                  [] pc = "record" /\ ok ->
                       [hook |-> invoke(hook, c, "reload"), store |-> store]
                  [] pc = "reload" ->
                       [hook |-> invoke(hook, c, "saveConfig"),
                        store |-> set(store, [buildRecords |-> IF ok THEN <<[id |-> "1"]>>
                                                               ELSE <<>>])]
                  [] OTHER -> finish(hook, store, c)
       IN  /\ pc # "done"
           /\ pc = "listen" => ok
           /\ (pc = "build" /\ ok) <=> result # Null
           /\ HookStep(r.hook, r.store, Event("resume", <<>>))

\* the hook unmounts: the cleanup calls the unlisten function the ref holds
unmountHook ==
    /\ hook.mounted
    /\ HookStep([hook EXCEPT !.mounted = FALSE,
                             !.listeners = IF hook.unlistenRef # 0 THEN @ \ {hook.unlistenRef}
                                           ELSE @],
                store, Event("unmountHook", <<>>))

\* the build page after its first commit: loadProjects is under way
InitProject ==
    /\ NotMounted
    /\ store = InitialStore
    /\ hook = [NoHook EXCEPT !.mounted = TRUE, !.pending = {"projects"}]
    /\ trace = Untraced

\* project switches, their loaders and the module selection
NextProject ==
    \/ \E id \in ProjectIds : selectProject(id)
    \/ \E list \in Rows : projectsLoaded(list)
    \/ \E list \in ModuleLists : modulesScanned(list)
    \/ \E list \in Rows : clientsLoaded(list)
    \/ \E list \in Rows : recordsLoaded(list)
    \/ \E clientId \in ClientIds : handleClientChange(clientId)
    \/ \E captured \in SUBSET ModuleNames, json \in RememberedModules :
           clientConfigLoaded(captured, json)
    \/ \E name \in moduleNames(store.modules) : hook.mounted /\ toggleModule(name)
    \/ hook.mounted /\ selectAll
    \/ hook.mounted /\ invertSelection
    \/ unmountHook

SpecProject == InitProject /\ [][NextProject]_vars

\* the build page with project 1 selected, its one module scanned and
\* selected and its one client loaded; every loader has answered
InitBuild ==
    /\ NotMounted
    /\ store = set(InitialStore, [projects |-> <<[id |-> "1"]>>,
                                  selectedProjectId |-> <<"1">>,
                                  clients |-> <<[id |-> "1"]>>,
                                  modules |-> <<ModuleInfo("auth")>>,
                                  selectedModules |-> {"auth"}])
    /\ hook = [NoHook EXCEPT !.mounted = TRUE]
    /\ trace = Created

\* builds, with the choices that decide whether a build is accepted
NextBuild ==
    \/ \E clientId \in ClientIds : handleClientChange(clientId)
    \/ \E captured \in SUBSET ModuleNames, json \in RememberedModules :
           clientConfigLoaded(captured, json)
    \/ \E name \in moduleNames(store.modules) : hook.mounted /\ toggleModule(name)
    \/ handleBuild
    \/ \E c \in 1..MaxCalls, ok \in BOOLEAN, result \in BuildResults : resume(c, ok, result)
    \/ unmountHook

SpecBuild == InitBuild /\ [][NextBuild]_vars

\* ------------------------------------------------------- derived values
\* const graphData = getGraphData(): the displayed graph of the current render
graphData == getGraphData(graph, granularity, hideIsolated)

\* a detail computed over the input graph instead of the displayed one
nodeDetailOfInput == nodeDetailOf(selectedNode, graph)

\* nodeDetail: the useMemo over [selectedNode, getGraphData]
nodeDetail == nodeDetailOf(selectedNode, graphData)

\* ------------------------------------------------ vocabulary of the claims
Count(x, q) == Cardinality({i \in DOMAIN q : q[i] = x})

HasSeparator(p) == \E i \in DOMAIN p : p[i] = "/"

\* d is the parent directory of path p: the text before p's last separator,
\* the root sentinel when p has none
IsParentDir(d, p) ==
    \/ ~HasSeparator(p) /\ d = ROOT
    \/ \E k \in DOMAIN p :
          /\ p[k] = "/"
          /\ \A j \in DOMAIN p : j > k => p[j] # "/"
          /\ Len(d) = k - 1
          /\ \A j \in 1..(k - 1) : d[j] = p[j]

ParentDirs(ns) ==
    {d \in UNION {{SubSeq(ns[i], 1, k) : k \in 0..Len(ns[i])} : i \in DOMAIN ns} \cup {ROOT} :
        \E i \in DOMAIN ns : IsParentDir(d, ns[i])}

Endpoints(es) == {es[i].source : i \in DOMAIN es} \cup {es[i].target : i \in DOMAIN es}

\* every edge joins two ids of the node list
EndpointsKnown(g) == Endpoints(g.edges) \subseteq Range(g.nodes)

\* the graph getGraphData filters: the input, aggregated under directory granularity
baseGraph == IF granularity = "directory" THEN aggregateToDirectory(graph) ELSE graph

\* no id and no edge endpoint of g can be split any further
LeafGraph(g) == \A p \in Range(g.nodes) \cup Endpoints(g.edges) : ~HasSeparator(p)

RECURSIVE SumDegrees(_, _)
SumDegrees(ns, i) == IF i > Len(ns) THEN 0 ELSE ns[i].degree + SumDegrees(ns, i + 1)

\* ------------------------------------------------------------------ C1
\* C1 (forest coverage): whenever the tree view has drawn the displayed graph,
\* every node of the displayed graph occurs exactly once among the descendants
\* of the synthetic super-root.
C1_ForestCoverage ==
    canvas.kind = "tree" =>
        \A n \in Range(graphData.nodes) : Count(n, namesBelow(canvas.tree)) = 1

\* ------------------------------------------------------------------ C2
\* C2 (aggregation correctness): under directory granularity the aggregated
\* graph's nodes are exactly the distinct parent directories of the input
\* nodes, each once, no aggregated edge joins a directory to itself, and an
\* empty input gives an empty output.
C2_AggregationCorrect ==
    granularity = "directory" =>
        LET out == aggregateToDirectory(graph)
        IN  /\ Range(out.nodes) = ParentDirs(graph.nodes)
            /\ NoDuplicates(out.nodes)
            /\ \A i \in DOMAIN out.edges : out.edges[i].source # out.edges[i].target
            /\ (graph.nodes = <<>> /\ graph.edges = <<>> => out = Graph(<<>>, <<>>))
            /\ (~hideIsolated => graphData = out)

C2_Witness ==
    /\ granularity = "directory"
    /\ ~hideIsolated
    /\ Len(graphData.nodes) = 2
    /\ ROOT \in Range(graphData.nodes)
    /\ Len(graphData.edges) = 1
    /\ \E i \in DOMAIN graph.edges :
          /\ graph.edges[i].source # graph.edges[i].target
          /\ IsParentDir(ROOT, graph.edges[i].source)
          /\ IsParentDir(ROOT, graph.edges[i].target)

\* ------------------------------------------------------------------ C3
\* C3 as claimed (aggregation idempotence): aggregating a directory-level
\* graph whose ids are leaf strings returns the same graph.
C3_Original ==
    (granularity = "directory" /\ LeafGraph(graph)) => aggregateToDirectory(graph) = graph

\* C3 as amended: aggregating a graph whose ids are leaf strings maps every
\* node to the root sentinel and drops every edge; the result is a fixed
\* point of the aggregation.
C3_LeafGraphCollapses ==
    (granularity = "directory" /\ LeafGraph(graph)) =>
        LET out == aggregateToDirectory(graph)
        IN  /\ out.nodes = IF graph.nodes = <<>> THEN <<>> ELSE <<ROOT>>
            /\ out.edges = <<>>
            /\ aggregateToDirectory(out) = out

C3_Witness ==
    /\ granularity = "directory"
    /\ ~hideIsolated
    /\ LeafGraph(graph)
    /\ Len(graph.nodes) = 2
    /\ \E i \in DOMAIN graph.edges : graph.edges[i].source # graph.edges[i].target
    /\ graphData = Graph(<<ROOT>>, <<>>)

\* ------------------------------------------------------------------ C4
\* C4 (isolation filter): with hideIsolated on, the displayed nodes are the
\* nodes of the unfiltered graph that are the source or the target of an
\* edge, in their original order, and the edge list is unchanged; with
\* hideIsolated off the displayed graph is the unfiltered graph.
C4_IsolationFilter ==
    LET base == baseGraph
        incident == Endpoints(base.edges)
        pos(n) == CHOOSE i \in DOMAIN base.nodes : base.nodes[i] = n
    IN  /\ hideIsolated =>
              /\ Range(graphData.nodes) = Range(base.nodes) \cap incident
              /\ NoDuplicates(graphData.nodes)
              /\ \A i, j \in DOMAIN graphData.nodes :
                    i < j => pos(graphData.nodes[i]) < pos(graphData.nodes[j])
              /\ graphData.edges = base.edges
        /\ ~hideIsolated => graphData = base

C4_Witness ==
    /\ hideIsolated
    /\ viewMode = "tree"
    /\ Len(baseGraph.nodes) = 3
    /\ Len(graphData.nodes) = 2
    /\ graphData.nodes = <<baseGraph.nodes[1], baseGraph.nodes[3]>>
    /\ Len(graphData.edges) = 2

\* ------------------------------------------------------------------ C5
\* C5 (degree sum): whenever the force view has drawn the displayed graph,
\* the degrees of the drawn nodes add up to twice the number of displayed
\* edges whose source and target are both in the node list.
C5_DegreeSum ==
    canvas.kind = "force" =>
        SumDegrees(canvas.nodes, 1) =
            2 * Cardinality({i \in DOMAIN graphData.edges :
                                /\ graphData.edges[i].source \in Range(graphData.nodes)
                                /\ graphData.edges[i].target \in Range(graphData.nodes)})

\* ------------------------------------------------------------------ C6
\* C6 (one simulation): at most one force simulation is running at any time.
C6_OneSimulation == Cardinality(Running(sims)) <= 1

\* ------------------------------------------------------------------ C7
\* C7 (cancellation): a step that switches the view mode from force to tree,
\* or that unmounts the view, leaves no force simulation running.
C7_Cancellation ==
    [][((mounted /\ ~mounted') \/ (mounted /\ mounted' /\ viewMode = "force" /\ viewMode' = "tree"))
          => Running(sims') = {}]_vars

\* ------------------------------------------------------------------ C8
\* C8 (teardown): once the view is unmounted no resize listener, no keydown
\* listener and no pending re-render timer of the view remains, and the
\* canvas stays as the teardown left it.
C8_TeardownReleases ==
    ~mounted =>
        /\ resizeListeners = {}
        /\ keyListeners = {}
        /\ timers = {}
        /\ canvas = Cleared

C8_Witness ==
    /\ ~mounted
    /\ Running(sims) # {}
    /\ Len(graph.nodes) = 3

C10_SelectionSymmetry ==
    nodeDetail # NoDetail =>
        \A other \in Range(graphData.nodes) \cup Endpoints(graphData.edges) :
            /\ other \in Range(nodeDetail.dependsOn)
                  <=> selectedNode \in Range(nodeDetailOf(other, graphData).dependedBy)
            /\ other \in Range(nodeDetail.dependedBy)
                  <=> selectedNode \in Range(nodeDetailOf(other, graphData).dependsOn)

C10_Witness ==
    /\ nodeDetail # NoDetail
    /\ ~hideIsolated
    /\ Len(nodeDetail.dependsOn) = 1
    /\ Len(nodeDetail.dependedBy) = 1
    /\ nodeDetail.dependsOn # nodeDetail.dependedBy

\* ------------------------------------------------------------------ C11
\* the k-th smallest member of a finite set of integers
KthOf(S, k) == CHOOSE i \in S : Cardinality({j \in S : j < i}) = k - 1

\* C11 (selection detail follows the displayed graph): with a selected id,
\* dependsOn lists exactly the targets of the displayed edges whose source is
\* that id and dependedBy exactly the sources of the displayed edges whose
\* target is that id, edge by edge, whatever granularity, isolation setting
\* and input graph the view is in; with no selection the detail is null.
C11_DetailFollowsDisplayed ==
    LET es == graphData.edges
        out == {i \in DOMAIN es : es[i].source = selectedNode}
        into == {i \in DOMAIN es : es[i].target = selectedNode}
    IN  IF selectedNode = Null
        THEN nodeDetail = NoDetail
        ELSE /\ nodeDetail.id = selectedNode
             /\ Len(nodeDetail.dependsOn) = Cardinality(out)
             /\ \A k \in 1..Cardinality(out) :
                    nodeDetail.dependsOn[k] = es[KthOf(out, k)].target
             /\ Len(nodeDetail.dependedBy) = Cardinality(into)
             /\ \A k \in 1..Cardinality(into) :
                    nodeDetail.dependedBy[k] = es[KthOf(into, k)].source

\* a file selected before the switch to directory granularity: the input graph
\* has an edge out of it, the displayed graph has none
C11_Witness ==
    /\ selectedNode = <<"a", "/", "x">>
    /\ granularity = "directory"
    /\ \E i \in DOMAIN graph.edges : graph.edges[i].source = selectedNode
    /\ nodeDetail.id = selectedNode
    /\ nodeDetail.dependsOn = <<>>

ImmediateTriggers ==
    {"SetViewMode", "SetGranularity", "ToggleHideIsolated", "Resize", "ReplaceGraph"}

\* the canvas holds one rendering and nothing else
OneRendering(cv) ==
    /\ cv.kind = "cleared" => cv = Cleared
    /\ cv.kind = "force" => cv.tree = EmptyTree /\ cv.nodes # <<>>
    /\ cv.kind = "tree" => cv.nodes = <<>> /\ cv.links = <<>> /\ cv.sim = 0

\* the canvas is a rendering of the displayed graph by the adapter of the view mode
CanvasCurrent ==
    /\ canvas.kind = IF Len(graphData.nodes) = 0 THEN "cleared" ELSE viewMode
    /\ canvas.kind = "force" =>
           [i \in DOMAIN canvas.nodes |-> canvas.nodes[i].id] = graphData.nodes
    /\ canvas.kind = "tree" =>
           Range(graphData.nodes) \subseteq Range(namesBelow(canvas.tree))

\* C13 (rebuild triggers): in the state a view-mode, granularity or isolation
\* toggle, a window resize or a graph replacement leaves, the handler has
\* invoked the layout adapter of the current view mode and the canvas is its
\* drawing of the displayed graph; in the state any adapter invocation
\* leaves, the canvas holds the elements of that one invocation only; and
\* after a fullscreen toggle the adapter of the current view mode is
\* eventually invoked.
C13_RebuildTriggers ==
    /\ [](trace.event.name \in ImmediateTriggers =>
              trace.adapter = viewMode /\ CanvasCurrent)
    /\ [](trace.adapter # "none" =>
              OneRendering(canvas) /\ canvas.kind \in {"cleared", trace.adapter})
    /\ (trace.due ~> ~trace.due)

\* the timer of a fullscreen toggle has re-invoked the adapter of the view mode
C13_Witness ==
    /\ expanded
    /\ trace.event.name = "TimerFire"
    /\ trace.adapter = viewMode
    /\ canvas.kind = "tree"
    /\ ~trace.due

\* ------------------------------------------------------------------ C14
OverlayEvents == {"SetSearchTerm", "ClickNode", "CloseDetail"}

\* C14 as stated (overlay state does not rebuild): the handler of a change of
\* searchTerm or of the selection invokes no layout adapter, so nothing is
\* torn down, derived again or started.
C14_Original == trace.event.name \in OverlayEvents => trace.adapter = "none"

\* C14 (amended): a change of the selection invokes no adapter and leaves the
\* canvas, the simulations and the render effect's cleanup as they are; a
\* change of searchTerm invokes the adapter of the current view mode, which
\* redraws the displayed graph and, in the force view, runs on a newly
\* started simulation.
C14_SelectionDoesNotRebuild ==
    /\ [][trace'.event.name \in {"ClickNode", "CloseDetail"} =>
              /\ trace'.adapter = "none"
              /\ UNCHANGED <<canvas, sims, effectCleanup, resizeListeners>>]_vars
    /\ [](trace.event.name = "SetSearchTerm" =>
              /\ trace.adapter = viewMode
              /\ CanvasCurrent
              /\ canvas.kind = "force" =>
                     canvas.sim = effectCleanup /\ sims[canvas.sim] = "running")

\* a search edit in the tree view has run the tree adapter again
C14_Witness ==
    /\ trace.event = Event("SetSearchTerm", <<"B">>)
    /\ viewMode = "tree"
    /\ trace.adapter = "tree"
    /\ canvas.kind = "tree"

\* ------------------------------------------------------------------ C15
\* the lower-cased id contains the lower-cased term
Matches(id, term) == includes(toLowerCase(id), toLowerCase(term))

\* C15 (search highlighting): on the canvas of either view, with an empty
\* searchTerm no node is dimmed, and with a non-empty one a node is at full
\* opacity if and only if its id matches the term.
C15_SearchHighlight ==
    /\ canvas.kind = "force" =>
           \A i \in DOMAIN canvas.nodes :
               canvas.nodes[i].opacity = 100 <=>
                   (searchTerm = <<>> \/ Matches(canvas.nodes[i].id, searchTerm))
    /\ canvas.kind = "tree" =>
           \A n \in Range(namesBelow(canvas.tree)) :
               treeOpacityOf(n, searchTerm) = 100 <=>
                   (searchTerm = <<>> \/ Matches(n, searchTerm))

\* ------------------------------------------------------------------ C16
\* C16 (Escape transition): a keydown of Escape while expanded is true sets
\* expanded to false and changes no other field of the view state; a keydown
\* of Escape while expanded is false, and of any other key in any state,
\* leaves every field of the view state unchanged.
C16_EscapeTransition ==
    [][\A k \in Keys :
          trace'.event = Event("KeyDown", <<k>>) =>
              IF k = "Escape" /\ expanded
              THEN /\ ~expanded'
                   /\ UNCHANGED <<viewMode, granularity, hideIsolated, searchTerm,
                                  selectedNode>>
              ELSE UNCHANGED viewState]_vars

\* Escape has left fullscreen: the view is collapsed and its re-render is pending
C16_Witness ==
    /\ trace.event = Event("KeyDown", <<"Escape">>)
    /\ ~expanded
    /\ trace.due
    /\ keyListeners = {KeyHandler(FALSE)}

\* ------------------------------------------------- C17 .. C20: the store
\* the fields of the store's state
StoreFields ==
    {"currentPage", "sidebarCollapsed", "categories", "projects", "selectedProjectId",
     "clients", "buildRecords", "modules", "selectedModules", "isBuilding", "buildResult"}

\* the step leaves the fields F of the store as they are
Keeps(F) == \A k \in F : store'[k] = store[k]

\* ------------------------------------------------------------------ C17
\* C17 (navigation frame): setCurrentPage(p) makes currentPage equal to p and
\* leaves every other field of the store unchanged.
C17_NavigationFrame ==
    [][\A p \in PageIds :
          trace'.event = Event("setCurrentPage", <<p>>) =>
              /\ DOMAIN store' = StoreFields
              /\ store'.currentPage = p
              /\ Keeps(StoreFields \ {"currentPage"})]_vars

\* the page was set while modules, a selection and a build result were held
C17_Witness ==
    /\ trace.event = Event("setCurrentPage", <<"analysis">>)
    /\ store.currentPage = "analysis"
    /\ Len(store.modules) = 2
    /\ store.selectedModules = {"billing"}
    /\ store.buildResult # Null
    /\ store.sidebarCollapsed

\* ------------------------------------------------------------------ C18
\* C18 (toggle): toggleModule(name) flips the membership of name in
\* selectedModules and of no other name, changes no other field, and a second
\* toggleModule(name) on the result gives the selection it started from.
C18_ToggleInvolution ==
    [][\A name \in ModuleNames :
          trace'.event = Event("toggleModule", <<name>>) =>
              /\ name \in store'.selectedModules <=> name \notin store.selectedModules
              /\ store'.selectedModules \ {name} = store.selectedModules \ {name}
              /\ toggled(store'.selectedModules, name) = store.selectedModules
              /\ Keeps(StoreFields \ {"selectedModules"})]_vars

\* auth was toggled off while billing stayed selected
C18_Witness ==
    /\ trace.event = Event("toggleModule", <<"auth">>)
    /\ store.selectedModules = {"billing"}

\* ------------------------------------------------------------------ C19
\* C19 (inversion): after invertSelection, selectedModules is exactly the set
\* of the names of the modules that were not selected before: every module
\* when none was selected, none when every module was.
C19_InvertSelection ==
    [][trace'.event.name = "invertSelection" =>
          LET names == {store.modules[i].name : i \in DOMAIN store.modules}
              before == store.selectedModules
              after == store'.selectedModules
          IN  /\ after = names \ before
              /\ (names \cap before = {} => after = names)
              /\ (names \subseteq before => after = {})
              /\ Keeps(StoreFields \ {"selectedModules"})]_vars

\* the inversion of a partial selection
C19_Witness ==
    /\ trace.event.name = "invertSelection"
    /\ Len(store.modules) = 2
    /\ store.selectedModules = {"auth"}

\* ------------------------------------------------------------------ C20
\* C20 (reset): reset empties categories, projects, clients, buildRecords and
\* modules, sets selectedProjectId and buildResult to null, selectedModules to
\* the empty set and isBuilding to false, and leaves currentPage unchanged.
C20_ResetFrame ==
    [][trace'.event.name = "reset" =>
          /\ store'.categories = <<>>
          /\ store'.projects = <<>>
          /\ store'.clients = <<>>
          /\ store'.buildRecords = <<>>
          /\ store'.modules = <<>>
          /\ store'.selectedProjectId = Null
          /\ store'.buildResult = Null
          /\ store'.selectedModules = {}
          /\ store'.isBuilding = FALSE
          /\ store'.currentPage = store.currentPage]_vars

\* a reset on a page other than the initial one
C20_Witness ==
    /\ trace.event.name = "reset"
    /\ store.currentPage = "analysis"
    /\ store.sidebarCollapsed
    /\ store.modules = <<>>
    /\ store.selectedModules = {}

\* ------------------------------------------------------------------ C21
\* the parent directory of path p, by IsParentDir
DirOf(p) ==
    CHOOSE d \in {SubSeq(p, 1, k) : k \in 0..Len(p)} \cup {ROOT} : IsParentDir(d, p)

\* the directory pair input edge e maps to
DirPair(e) == <<DirOf(e.source), DirOf(e.target)>>

\* C21 (aggregation deduplication): the edges of the aggregated graph are, in
\* the order of first occurrence in the input, one edge for every distinct
\* pair of different directories that some input edge maps to: no pair twice
\* and none missing.
C21_Deduplication ==
    granularity = "directory" =>
        LET es == graph.edges
            out == aggregateToDirectory(graph).edges
            firsts == {i \in DOMAIN es :
                         /\ DirPair(es[i])[1] # DirPair(es[i])[2]
                         /\ \A j \in 1..(i - 1) : DirPair(es[j]) # DirPair(es[i])}
        IN  /\ Len(out) = Cardinality(firsts)
            /\ \A k \in 1..Cardinality(firsts) :
                   out[k] = Edge(DirPair(es[KthOf(firsts, k)])[1],
                                 DirPair(es[KthOf(firsts, k)])[2])

\* ------------------------------------------------------------------ C22
\* no name occurs twice on a path from t down to a leaf, seen being the names above t
RECURSIVE PathsDistinct(_, _)
PathsDistinct(t, seen) ==
    /\ t.name \notin seen
    /\ \A i \in DOMAIN t.children : PathsDistinct(t.children[i], seen \cup {t.name})

RECURSIVE Depth(_)
Depth(t) ==
    IF t.children = <<>> THEN 0
    ELSE 1 + SeqMax({Depth(t.children[i]) : i \in DOMAIN t.children})

\* C22 (forest builder termination): on every displayed graph, with cycles,
\* self-loops and duplicate edges, buildTree returns: the forest it built is
\* finite, no id repeats on a path from the super-root, so the recursion is
\* never deeper than the number of ids of the graph.
C22_BuildTreeTerminates ==
    canvas.kind = "tree" =>
        /\ PathsDistinct(canvas.tree, {})
        /\ Depth(canvas.tree) <=
               Cardinality(Range(graphData.nodes) \cup Endpoints(graphData.edges))

\* the forest of a graph in which every node is on a cycle or a self-loop
C22_Witness ==
    /\ canvas.kind = "tree"
    /\ Len(graphData.nodes) > 0
    /\ rootsOf(graphData) = <<>>
    /\ \E i \in DOMAIN graphData.edges :
           graphData.edges[i].source = graphData.edges[i].target
    /\ Depth(canvas.tree) = 2

\* ------------------------------------------------------------------ C23
\* the nodes of the displayed graph that no edge targets, in node-list order
NoIncoming(n) == \A i \in DOMAIN graphData.edges : graphData.edges[i].target # n
ZeroInDegree == SelectSeq(graphData.nodes, NoIncoming)

\* the traversal roots: the in-degree-0 nodes, or the first node when there are none
TraversalRoots == IF ZeroInDegree = <<>> THEN <<graphData.nodes[1]>> ELSE ZeroInDegree

\* the displayed graph is a three-node cycle n1 -> n2 -> n3 -> n1
IsThreeCycle ==
    /\ Len(graphData.nodes) = 3
    /\ graphData.edges = <<Edge(graphData.nodes[1], graphData.nodes[2]),
                           Edge(graphData.nodes[2], graphData.nodes[3]),
                           Edge(graphData.nodes[3], graphData.nodes[1])>>

CycleChain ==
    TreeNode(PROJECT,
             <<TreeNode(graphData.nodes[1],
                        <<TreeNode(graphData.nodes[2],
                                   <<TreeNode(graphData.nodes[3], <<>>)>>)>>)>>)

\* C23 as stated (root selection): whenever the tree view has drawn the
\* displayed graph, the sub-trees under the super-root are rooted at exactly
\* the nodes with in-degree 0; when there is none the first node is the only
\* node traversed from; and the cycle x -> y -> z -> x gives x containing y containing z.
C23_Original ==
    canvas.kind = "tree" =>
        /\ ZeroInDegree # <<>> =>
               {canvas.tree.children[i].name : i \in DOMAIN canvas.tree.children}
                   = Range(ZeroInDegree)
        /\ ZeroInDegree = <<>> =>
               /\ canvas.tree.children[1].name = graphData.nodes[1]
               /\ \A i \in 2..Len(canvas.tree.children) :
                      canvas.tree.children[i].children = <<>>
        /\ IsThreeCycle => canvas.tree = CycleChain

\* C23 amended (root selection): whenever the tree view has drawn the
\* displayed graph, the super-root's children begin with the sub-trees of the
\* traversal roots, which are the nodes with in-degree 0 in node-list order,
\* or the first node alone when there is none; every further child is a leaf
\* for a displayed node that has incoming edges and that no traversal reached;
\* and the cycle x -> y -> z -> x gives x containing y containing z, 3 nodes.
C23_RootSelection ==
    canvas.kind = "tree" =>
        LET top == canvas.tree.children
            k == Len(TraversalRoots)
            reached == UNION {{top[i].name} \cup Range(namesBelow(top[i])) : i \in 1..k}
        IN  /\ Len(top) >= k
            /\ \A i \in 1..k : top[i].name = TraversalRoots[i]
            /\ \A i \in (k + 1)..Len(top) :
                   /\ top[i].children = <<>>
                   /\ top[i].name \in Range(graphData.nodes)
                   /\ ~NoIncoming(top[i].name)
                   /\ top[i].name \notin reached
            /\ IsThreeCycle =>
                   /\ canvas.tree = CycleChain
                   /\ Len(namesBelow(canvas.tree)) = 3

C23_Witness ==
    /\ canvas.kind = "tree"
    /\ IsThreeCycle
    /\ ZeroInDegree = <<>>
    /\ canvas.tree.children[1].name = graphData.nodes[1]

\* ------------------------------------------------------------------ C24
\* C24 (orphan endpoints): whenever a view has drawn the displayed graph,
\* every node of the forest below the super-root is an id of the displayed
\* node list, and every link of the force view joins two ids of the displayed
\* node list, also when an edge names a source or a target that is not a node.
C24_OrphansNotTraversed ==
    /\ canvas.kind = "tree" =>
           Range(namesBelow(canvas.tree)) \subseteq Range(graphData.nodes)
    /\ canvas.kind = "force" =>
           \A i \in DOMAIN canvas.links :
               /\ canvas.links[i].source \in Range(graphData.nodes)
               /\ canvas.links[i].target \in Range(graphData.nodes)

\* ------------------------------------------------------------------ C25
\* C25 (empty graph): whenever the displayed graph has no nodes, because the
\* input is empty or because hideIsolated is on and no node has an edge, the
\* canvas of either view mode is the cleared canvas, with no circle, link or
\* tree on it, and no simulation is running.
C25_EmptyGraph ==
    (mounted /\ Len(graphData.nodes) = 0) =>
        /\ canvas = Cleared
        /\ canvas.nodes = <<>> /\ canvas.links = <<>> /\ canvas.tree = EmptyTree
        /\ Running(sims) = {}

C25_Witness ==
    /\ mounted
    /\ Len(graph.nodes) > 0
    /\ hideIsolated
    /\ Len(graphData.nodes) = 0
    /\ viewMode = "tree"
    /\ granularity = "directory"
    /\ canvas = Cleared

\* ------------------------------------------------------------------ C27
\* C27 (no stale rendering): after any interleaving of view-mode, granularity
\* and isolation toggles, graph replacements, resizes, fullscreen toggles and
\* firings of the delayed re-render, once no re-render timer is pending the
\* canvas is the rendering, by the adapter of the current viewMode, of the
\* graph derived from the current graph, granularity and hideIsolated.
C27_NoStaleRendering ==
    (mounted /\ timers = {}) =>
        LET now == renderByMode(CurClosure, sims).canvas
        IN  /\ canvas.kind = now.kind
            /\ canvas.nodes = now.nodes
            /\ canvas.links = now.links
            /\ canvas.linkOpacity = now.linkOpacity
            /\ canvas.tree = now.tree

\* ------------------------------------------------------------------ C28
\* C28 (selection validity): after any sequence of node clicks, granularity
\* and view-mode toggles and search edits, selectedNode is null or the id of
\* a node of the currently displayed graph.
C28_SelectionValid ==
    mounted => (selectedNode = Null \/ selectedNode \in Range(graphData.nodes))

\* ------------------------------------------------------------------ C26
\* a build may start: a project of the list is selected, a module is selected
\* and the selected client is one of the clients
CanBuild ==
    /\ \E i \in DOMAIN store.projects : <<store.projects[i].id>> = store.selectedProjectId
    /\ store.selectedModules # {}
    /\ \E i \in DOMAIN store.clients : <<store.clients[i].id>> = hook.selectedClientId

\* the calls that have invoked a backend command
Invoking(calls) == {c \in DOMAIN calls : calls[c] \notin {"listen", "done"}}

\* the calls that reach the end of handleBuild in this step
Finishing == {c \in DOMAIN hook.calls : hook.calls[c] # "done" /\ hook'.calls[c] = "done"}

C29_SelectionWithinModules ==
    store.selectedModules \subseteq {store.modules[i].name : i \in DOMAIN store.modules}

\* ------------------------------------------------------------------ C30
\* C30 (one log listener): at most one "build-log" listener is registered at
\* any time, and none is registered once every handleBuild call made has
\* finished or once the hook has unmounted.
C30_SingleListener ==
    /\ Cardinality(hook.listeners) <= 1
    /\ (\A c \in DOMAIN hook.calls : hook.calls[c] = "done") => hook.listeners = {}
    /\ ~hook.mounted => hook.listeners = {}
====
